---- MODULE Spec2Model ----
(***************************************************************************)
(* Checkmk check plug-ins for Microsoft 365 (m365_licenses,                *)
(* m365_service_health, m365_group_based_licensing).                       *)
(*                                                                         *)
(* One collection cycle is modelled as                                     *)
(*   idle --parse--> parsed --check--> checked --EndCycle--> idle          *)
(* with a parse that raises ending in "parse_failed" and a discovery       *)
(* ending in "discovered".                                                 *)
(*   Spec           one cycle at a time, over the full value ranges;       *)
(*   SpecCycles     successive cycles that keep the section text in        *)
(*                  raw_section, the objects of the earlier cycle and      *)
(*                  how that cycle ended (previous);                       *)
(*   SpecConcurrent check calls that the host interleaves (sections,       *)
(*                  calls);                                                *)
(*   SpecLevels     one licenses cycle at a time, with levels next to the  *)
(*                  percentages that few units give and with licenses      *)
(*                  that differ in the fields the check does not compare.  *)
(*                                                                         *)
(* Encoding of Python values:                                              *)
(*   - None is the empty tuple <<>>; an optional number x is <<x>>;        *)
(*   - an f-string is the tuple of its literal pieces and of the values    *)
(*     interpolated into it ("" is <<>>);                                  *)
(*   - "\n\n".join(blocks) is the sequence of the blocks;                  *)
(*   - a percentage is an exact number of hundredths of a percent, so      *)
(*     10.0 % is 1000 and x / y * 100 < p is compared by cross             *)
(*     multiplication (binary floating point rounding is not modelled);    *)
(*   - State.OK, WARN, CRIT, UNKNOWN are 0, 1, 2, 3.                       *)
(***************************************************************************)
EXTENDS Integers, Sequences, FiniteSets, TLC

VARIABLES pc, check, section, item, params, yielded, raised,
          raw_section, previous, sections, calls

vars == <<pc, check, section, item, params, yielded, raised,
          raw_section, previous, sections, calls>>

----------------------------------------------------------------------------
(* Bounds of the model *)

MaxEnabled == 2
MaxWarning == 1
MaxConsumed == 3
MaxAbsLevel == 2
MaxEntries == 1
MaxIssues == 2
MaxGroups == 3
MaxCycleEntries == 2
NumCalls == 2
MaxLevelEnabled == 3
MaxLevelConsumed == 5

----------------------------------------------------------------------------
(* Python and cmk.agent_based.v2 values *)

None == <<>>

Some(x) == <<x>>

OK == 0

WARN == 1

CRIT == 2

UNKNOWN == 3

Truthy(x) == x # None

Max(a, b) == IF a >= b THEN a ELSE b

Result(state, summary, details) ==
  [kind |-> "Result", state |-> state, summary |-> summary, details |-> details]

Metric(name, value, levels) ==
  [kind |-> "Metric", name |-> name, value |-> value, levels |-> levels]

NoLevels == <<None, None>>

Returned(ys) == [raised |-> "none", yielded |-> ys]

Raised(e) == [raised |-> e, yielded |-> <<>>]

BoundedSeq(S, n) == UNION {[1..k -> S] : k \in 0..n}

Put(f, k, v) == [x \in (DOMAIN f) \cup {k} |-> IF x = k THEN v ELSE f[x]]

EmptyMapping == [x \in {} |-> None]

\* dict.get(key) with default None
Get(mapping, key) == IF key \in DOMAIN mapping THEN mapping[key] ELSE None

\* round(n / d, 0) for n >= 0, d > 0: round half to even
RoundHalfEven(n, d) ==
  LET q == n \div d
      r == n % d
  IN  IF 2 * r < d THEN q
      ELSE IF 2 * r > d THEN q + 1
      ELSE IF q % 2 = 0 THEN q ELSE q + 1

----------------------------------------------------------------------------
(* m365_licenses: data *)

LicenseFields ==
  {"lic_sku_id", "lic_sku_name", "lic_state", "lic_units_consumed",
   "lic_units_enabled", "lic_units_lockedout", "lic_units_suspended",
   "lic_units_warning"}

License(id, name, state, consumed, enabled, lockedout, suspended, warning) ==
  [lic_sku_id |-> id, lic_sku_name |-> name, lic_state |-> state,
   lic_units_consumed |-> consumed, lic_units_enabled |-> enabled,
   lic_units_lockedout |-> lockedout, lic_units_suspended |-> suspended,
   lic_units_warning |-> warning]

SkuNames == {"VISIOCLIENT", "THREAT_INTELLIGENCE"}

SkuId(name) ==
  IF name = "VISIOCLIENT" THEN "c5928f49-12ba-48f7-ada3-0d743a3601d5"
  ELSE "3dd6cf57-d688-4eed-ba52-9e40b5468c3e"

\* The two entries of the example data of the plug-in and an over-assigned SKU.
ExampleLicenses ==
  {License(SkuId("VISIOCLIENT"), "VISIOCLIENT", "Enabled", 44, 50, 0, 0, 5),
   License(SkuId("THREAT_INTELLIGENCE"), "THREAT_INTELLIGENCE", "Suspended",
           0, 0, 0, 200, 0),
   License(SkuId("THREAT_INTELLIGENCE"), "THREAT_INTELLIGENCE", "Enabled",
           12, 10, 0, 0, 0)}

LicenseItems ==
  {License(SkuId(n), n, "Enabled", c, e, 0, 0, w) :
     n \in SkuNames, c \in 0..MaxConsumed, e \in 0..MaxEnabled, w \in 0..MaxWarning}
  \cup ExampleLicenses

\* An entry of the JSON array without its "lic_state" member.
BadLicenseItem ==
  [lic_sku_id |-> SkuId("VISIOCLIENT"), lic_sku_name |-> "VISIOCLIENT",
   lic_units_consumed |-> 1, lic_units_enabled |-> 1, lic_units_lockedout |-> 0,
   lic_units_suspended |-> 0, lic_units_warning |-> 0]

\* string_table: the section text, either a JSON array of objects or not JSON.
JsonArray(items) == [valid_json |-> TRUE, items |-> items]

NotJson == [valid_json |-> FALSE, items |-> <<>>]

\* the section texts that do not parse
BadLicensesStringTables == {JsonArray(<<BadLicenseItem>>), NotJson}

PctLevelValues == {500, 1000, 2500, 5000, 10000}

AbsLevelValues == (1..MaxAbsLevel) \cup {5, 10}

LicensesParams ==
  {<<"lic_overlicensed", None>>}
  \cup {<<m, <<"no_levels", None>>>> :
          m \in {"lic_unit_available_lower_pct", "lic_unit_available_lower_abs"}}
  \cup {<<"lic_unit_available_lower_pct", <<"fixed", <<w, c>>>>>> :
          w \in PctLevelValues, c \in PctLevelValues}
  \cup {<<"lic_unit_available_lower_abs", <<"fixed", <<w, c>>>>>> :
          w \in AbsLevelValues, c \in AbsLevelValues}

----------------------------------------------------------------------------
(* m365_licenses: parse and check *)

\* as ParseLicensesLoop, with an entry that is no License left out
RECURSIVE ParseLicensesLoop_skip_entry(_, _, _)
ParseLicensesLoop_skip_entry(items, i, parsed) ==
  IF i > Len(items) THEN [ok |-> TRUE, section |-> parsed, raised |-> "none"]
  ELSE IF DOMAIN items[i] # LicenseFields
       THEN ParseLicensesLoop_skip_entry(items, i + 1, parsed)
       ELSE ParseLicensesLoop_skip_entry(items, i + 1,
                                         Put(parsed, items[i].lic_sku_name, items[i]))

\* as ParseLicensesLoop, with the dict "parsed" created anew for every entry
RECURSIVE ParseLicensesLoop_dict_in_loop(_, _, _)
ParseLicensesLoop_dict_in_loop(items, i, parsed) ==
  IF i > Len(items) THEN [ok |-> TRUE, section |-> parsed, raised |-> "none"]
  ELSE IF DOMAIN items[i] # LicenseFields
       THEN [ok |-> FALSE, section |-> None, raised |-> "TypeError"]
       ELSE ParseLicensesLoop_dict_in_loop(items, i + 1,
              Put(EmptyMapping, items[i].lic_sku_name, items[i]))

RECURSIVE ParseLicensesLoop(_, _, _)
ParseLicensesLoop(items, i, parsed) ==
  IF i > Len(items) THEN [ok |-> TRUE, section |-> parsed, raised |-> "none"]
  ELSE IF DOMAIN items[i] # LicenseFields
       THEN [ok |-> FALSE, section |-> None, raised |-> "TypeError"]
       ELSE ParseLicensesLoop(items, i + 1,
                              Put(parsed, items[i].lic_sku_name, items[i]))

parse_m365_licenses(string_table) ==
  IF ~string_table.valid_json
  THEN [ok |-> FALSE, section |-> None, raised |-> "JSONDecodeError"]
  ELSE ParseLicensesLoop(string_table.items, 1, EmptyMapping)

\* Service(item=...) and Service()
Service(i) == [kind |-> "Service", item |-> i]

ServiceWithoutItem == [kind |-> "Service"]

\* the keys of a dict, each once, in the order of iteration
RECURSIVE IterKeys(_)
IterKeys(keys) ==
  IF keys = {} THEN <<>>
  ELSE LET k == CHOOSE x \in keys : TRUE
       IN  <<k>> \o IterKeys(keys \ {k})

DiscoverEachKey(s) ==
  [n \in 1..Len(IterKeys(DOMAIN s)) |-> Service(IterKeys(DOMAIN s)[n])]

\* as discover_m365_licenses, without the SKUs that have no usable unit
discover_m365_licenses_usable(s) ==
  DiscoverEachKey([k \in {x \in DOMAIN s :
                          s[x].lic_units_enabled + s[x].lic_units_warning > 0} |-> s[k]])

discover_m365_licenses(s) == DiscoverEachKey(s)

\* as lic_units_total, with the suspended units counted as well
lic_units_total_with_suspended(license) ==
  license.lic_units_enabled + license.lic_units_warning + license.lic_units_suspended

lic_units_total(license) == license.lic_units_enabled + license.lic_units_warning

\* in hundredths of a percent; only evaluated for lic_units_total > 0
lic_units_consumed_pct(license) ==
  RoundHalfEven(license.lic_units_consumed * 10000, lic_units_total(license))

lic_units_available_raw(license) ==
  lic_units_total(license) - license.lic_units_consumed

lic_units_available_unclamped(license) == lic_units_available_raw(license)

lic_units_available(license) == Max(0, lic_units_available_raw(license))

overlicensed_state_inclusive(license) ==
  IF lic_units_available_raw(license) <= 0 THEN CRIT ELSE OK

\* as overlicensed_state, with the displayed count of available units compared
overlicensed_state_displayed(license) ==
  IF lic_units_available(license) < 0 THEN CRIT ELSE OK

overlicensed_state(license) ==
  IF lic_units_available_raw(license) < 0 THEN CRIT ELSE OK

\* available_pct < level, with available_pct = available_raw / total * 100
AvailablePctBelow(license, level) ==
  lic_units_available_raw(license) * 10000 < level * lic_units_total(license)

pct_state_inclusive(license, warning_level, critical_level) ==
  IF lic_units_available_raw(license) * 10000 <= critical_level * lic_units_total(license)
  THEN CRIT
  ELSE IF lic_units_available_raw(license) * 10000 <= warning_level * lic_units_total(license)
  THEN WARN
  ELSE OK

\* as pct_state, with the levels taken as upper levels of the consumed percentage
pct_state_upper_levels(license, warning_level, critical_level) ==
  IF license.lic_units_consumed * 10000 > critical_level * lic_units_total(license)
  THEN CRIT
  ELSE IF license.lic_units_consumed * 10000 > warning_level * lic_units_total(license)
  THEN WARN
  ELSE OK

\* as pct_state, with the warning level compared first
pct_state_warning_first(license, warning_level, critical_level) ==
  IF AvailablePctBelow(license, warning_level) THEN WARN
  ELSE IF AvailablePctBelow(license, critical_level) THEN CRIT
  ELSE OK

pct_state(license, warning_level, critical_level) ==
  IF AvailablePctBelow(license, critical_level) THEN CRIT
  ELSE IF AvailablePctBelow(license, warning_level) THEN WARN
  ELSE OK

levels_consumed_abs(license, warning_level, critical_level) ==
  <<lic_units_total(license) - warning_level,
    lic_units_total(license) - critical_level>>

abs_state_inclusive(license, warning_level, critical_level) ==
  IF license.lic_units_consumed >= levels_consumed_abs(license, warning_level, critical_level)[2]
  THEN CRIT
  ELSE IF license.lic_units_consumed >= levels_consumed_abs(license, warning_level, critical_level)[1]
  THEN WARN
  ELSE OK

abs_state(license, warning_level, critical_level) ==
  IF license.lic_units_consumed > levels_consumed_abs(license, warning_level, critical_level)[2]
  THEN CRIT
  ELSE IF license.lic_units_consumed > levels_consumed_abs(license, warning_level, critical_level)[1]
  THEN WARN
  ELSE OK

\* as LicenseLevels, with the configured levels put unconverted on both metrics
LicenseLevels_unconverted(license, params_levels_available_lower) ==
  IF params_levels_available_lower[1] = "lic_overlicensed"
  THEN [result_state |-> overlicensed_state(license), result_level |-> <<>>,
        levels_consumed_abs |-> NoLevels, levels_consumed_pct |-> NoLevels]
  ELSE IF Truthy(params_levels_available_lower[2][2])
  THEN LET warning_level == params_levels_available_lower[2][2][1]
           critical_level == params_levels_available_lower[2][2][2]
       IN  [result_state |->
              IF params_levels_available_lower[1] = "lic_unit_available_lower_pct"
              THEN pct_state(license, warning_level, critical_level)
              ELSE abs_state(license, warning_level, critical_level),
            result_level |-> <<" (warn/crit below ", warning_level, "/",
                               critical_level, " available)">>,
            levels_consumed_abs |-> <<Some(warning_level), Some(critical_level)>>,
            levels_consumed_pct |-> <<Some(warning_level), Some(critical_level)>>]
  ELSE [result_state |-> OK, result_level |-> <<>>,
        levels_consumed_abs |-> NoLevels, levels_consumed_pct |-> NoLevels]

\* as LicenseLevels, with over-assignment still checked when no levels are set
LicenseLevels_always_overlicensed(license, params_levels_available_lower) ==
  IF params_levels_available_lower[1] = "lic_overlicensed"
  THEN [result_state |-> overlicensed_state(license), result_level |-> <<>>,
        levels_consumed_abs |-> NoLevels, levels_consumed_pct |-> NoLevels]
  ELSE IF Truthy(params_levels_available_lower[2][2])
  THEN LET warning_level == params_levels_available_lower[2][2][1]
           critical_level == params_levels_available_lower[2][2][2]
       IN  IF params_levels_available_lower[1] = "lic_unit_available_lower_pct"
           THEN [result_state |-> pct_state(license, warning_level, critical_level),
                 result_level |-> <<" (warn/crit below ", warning_level, "/",
                                    critical_level, " available)">>,
                 levels_consumed_abs |-> NoLevels,
                 levels_consumed_pct |-> <<Some(10000 - warning_level),
                                           Some(10000 - critical_level)>>]
           ELSE [result_state |-> abs_state(license, warning_level, critical_level),
                 result_level |-> <<" (warn/crit below ", warning_level, "/",
                                    critical_level, " available)">>,
                 levels_consumed_abs |->
                   <<Some(levels_consumed_abs(license, warning_level, critical_level)[1]),
                     Some(levels_consumed_abs(license, warning_level, critical_level)[2])>>,
                 levels_consumed_pct |-> NoLevels]
  ELSE [result_state |-> overlicensed_state(license), result_level |-> <<>>,
        levels_consumed_abs |-> NoLevels, levels_consumed_pct |-> NoLevels]

\* result_state, result_level and the levels of the two consumed metrics
LicenseLevels(license, params_levels_available_lower) ==
  IF params_levels_available_lower[1] = "lic_overlicensed"
  THEN [result_state |-> overlicensed_state(license), result_level |-> <<>>,
        levels_consumed_abs |-> NoLevels, levels_consumed_pct |-> NoLevels]
  ELSE IF Truthy(params_levels_available_lower[2][2])
  THEN LET warning_level == params_levels_available_lower[2][2][1]
           critical_level == params_levels_available_lower[2][2][2]
       IN  IF params_levels_available_lower[1] = "lic_unit_available_lower_pct"
           THEN [result_state |-> pct_state(license, warning_level, critical_level),
                 result_level |-> <<" (warn/crit below ", warning_level, "/",
                                    critical_level, " available)">>,
                 levels_consumed_abs |-> NoLevels,
                 levels_consumed_pct |-> <<Some(10000 - warning_level),
                                           Some(10000 - critical_level)>>]
           ELSE [result_state |-> abs_state(license, warning_level, critical_level),
                 result_level |-> <<" (warn/crit below ", warning_level, "/",
                                    critical_level, " available)">>,
                 levels_consumed_abs |->
                   <<Some(levels_consumed_abs(license, warning_level, critical_level)[1]),
                     Some(levels_consumed_abs(license, warning_level, critical_level)[2])>>,
                 levels_consumed_pct |-> NoLevels]
  ELSE [result_state |-> OK, result_level |-> <<>>,
        levels_consumed_abs |-> NoLevels, levels_consumed_pct |-> NoLevels]

result_summary_licenses(license, result_level) ==
  <<"Consumed: ", lic_units_consumed_pct(license), " - ",
    license.lic_units_consumed, " of ", lic_units_total(license),
    ", Available: ", lic_units_available(license), result_level,
    IF license.lic_units_warning > 0
    THEN <<", Warning: ", license.lic_units_warning>> ELSE <<>>,
    ", License state: ", license.lic_state>>

result_details_licenses(license) ==
  <<<<"License ID: ", license.lic_sku_id>>,
    <<"Enabled (Active): ", license.lic_units_enabled>>,
    <<"Consumed (Used): ", license.lic_units_consumed>>,
    <<"LockedOut (Canceled): ", license.lic_units_lockedout>>,
    <<"Suspended (Inactive): ", license.lic_units_suspended>>,
    <<"Warning (In grace period): ", license.lic_units_warning>>>>

\* as LicensesYields, with the available metric yielded before the percentage
LicensesYields_reordered(license, p) ==
  LET lv == LicenseLevels(license, p["lic_unit_available_lower"])
  IN  <<Result(lv.result_state, result_summary_licenses(license, lv.result_level),
               result_details_licenses(license)),
        Metric("m365_licenses_total", lic_units_total(license), NoLevels),
        Metric("m365_licenses_enabled", license.lic_units_enabled, NoLevels),
        Metric("m365_licenses_consumed", license.lic_units_consumed,
               lv.levels_consumed_abs),
        Metric("m365_licenses_available", lic_units_available(license), NoLevels),
        Metric("m365_licenses_consumed_pct", lic_units_consumed_pct(license),
               lv.levels_consumed_pct),
        Metric("m365_licenses_warning", license.lic_units_warning, NoLevels)>>

\* the yields of check_m365_licenses, reached only with lic_units_total > 0
LicensesYields(license, p) ==
  LET lv == LicenseLevels(license, p["lic_unit_available_lower"])
  IN  <<Result(lv.result_state, result_summary_licenses(license, lv.result_level),
               result_details_licenses(license)),
        Metric("m365_licenses_total", lic_units_total(license), NoLevels),
        Metric("m365_licenses_enabled", license.lic_units_enabled, NoLevels),
        Metric("m365_licenses_consumed", license.lic_units_consumed,
               lv.levels_consumed_abs),
        Metric("m365_licenses_consumed_pct", lic_units_consumed_pct(license),
               lv.levels_consumed_pct),
        Metric("m365_licenses_available", lic_units_available(license), NoLevels),
        Metric("m365_licenses_warning", license.lic_units_warning, NoLevels)>>

check_m365_licenses_guarded(i, p, s) ==
  LET license == Get(s, i)
  IN  IF license = None THEN Returned(<<>>)
      ELSE IF lic_units_total(license) = 0
           THEN Returned(<<Result(OK, <<"No licenses">>, <<>>)>>)
           ELSE Returned(LicensesYields(license, p))

check_m365_licenses_not_found(i, p, s) ==
  LET license == Get(s, i)
  IN  IF license = None THEN Returned(<<Result(UNKNOWN, <<"Item not found">>, <<>>)>>)
      ELSE IF lic_units_total(license) = 0
           THEN Raised("ZeroDivisionError")
           ELSE Returned(LicensesYields(license, p))

check_m365_licenses(i, p, s) ==
  LET license == Get(s, i)
  IN  IF license = None THEN Returned(<<>>)
      ELSE IF lic_units_total(license) = 0
           THEN Raised("ZeroDivisionError")
           ELSE Returned(LicensesYields(license, p))

----------------------------------------------------------------------------
(* m365_service_health: data *)

ServiceIssueFields ==
  {"issue_title", "issue_start", "issue_feature", "issue_classification", "issue_id"}

ServiceIssue(title, start, feature, classification, id) ==
  [issue_title |-> title, issue_start |-> start, issue_feature |-> feature,
   issue_classification |-> classification, issue_id |-> id]

MicrosoftService(name, status, issues) ==
  [service_name |-> name, service_status |-> status, service_issues |-> issues]

ServiceNames == {"Exchange Online", "Microsoft Entra"}

ServiceStatuses == {"serviceOperational", "serviceDegradation"}

\* issue_start is an ISO-8601 timestamp or empty
ServiceIssues ==
  {ServiceIssue("Some users may be unable to view group membership",
                "2024-05-02T01:00:00Z", "OWA - poor customer experience",
                "advisory", "EX785433"),
   ServiceIssue("Users can't sign in", "", "Sign-in", "incident", "MO100001"),
   ServiceIssue("Planned maintenance", "2024-05-03T10:30:00Z", "Portal",
                "maintenance", "MO100002")}

ServiceHealthItems ==
  {MicrosoftService(n, st, is) :
     n \in ServiceNames, st \in ServiceStatuses,
     is \in BoundedSeq(ServiceIssues, MaxIssues)}

\* An entry of the JSON array without its "service_status" member.
BadServiceHealthItem ==
  [service_name |-> "Exchange Online", service_issues |-> <<>>]

\* An entry one of whose issues has no "issue_id" member.
BadServiceIssueItem ==
  [service_name |-> "Exchange Online", service_status |-> "serviceOperational",
   service_issues |-> <<[issue_title |-> "t", issue_start |-> "",
                         issue_feature |-> "f", issue_classification |-> "incident"]>>]

\* the section texts that do not parse
BadServiceHealthStringTables ==
  {JsonArray(<<BadServiceHealthItem>>), JsonArray(<<BadServiceIssueItem>>), NotJson}

\* the ruleset offers the optional keys "incident" and "advisory", each a ServiceState
ServiceHealthParams ==
  UNION {[ks -> {OK, WARN, CRIT, UNKNOWN}] : ks \in SUBSET {"incident", "advisory"}}

----------------------------------------------------------------------------
(* m365_service_health: parse and check *)

RECURSIVE ParseServiceIssues(_, _)
ParseServiceIssues(issues, i) ==
  IF i > Len(issues) THEN TRUE
  ELSE DOMAIN issues[i] = ServiceIssueFields /\ ParseServiceIssues(issues, i + 1)

RECURSIVE ParseServiceHealthLoop(_, _, _)
ParseServiceHealthLoop(items, i, parsed) ==
  IF i > Len(items) THEN [ok |-> TRUE, section |-> parsed, raised |-> "none"]
  ELSE IF "service_issues" \notin DOMAIN items[i]
       THEN [ok |-> FALSE, section |-> None, raised |-> "KeyError"]
  ELSE IF ~ParseServiceIssues(items[i].service_issues, 1)
       THEN [ok |-> FALSE, section |-> None, raised |-> "TypeError"]
  ELSE IF {"service_name", "service_status"} \ DOMAIN items[i] # {}
       THEN [ok |-> FALSE, section |-> None, raised |-> "KeyError"]
  ELSE ParseServiceHealthLoop(items, i + 1,
         Put(parsed, items[i].service_name,
             MicrosoftService(items[i].service_name, items[i].service_status,
                              items[i].service_issues)))

parse_m365_service_health(string_table) ==
  IF ~string_table.valid_json
  THEN [ok |-> FALSE, section |-> None, raised |-> "JSONDecodeError"]
  ELSE ParseServiceHealthLoop(string_table.items, 1, EmptyMapping)

discover_m365_service_health(s) == DiscoverEachKey(s)

\* dict.get(key, 0)
GetOr0(mapping, key) == IF key \in DOMAIN mapping THEN mapping[key] ELSE 0

\* as issue_classification_dict, with a counter set to 1 on every occurrence
RECURSIVE issue_classification_dict_reset(_, _)
issue_classification_dict_reset(issues, n) ==
  IF n = 0 THEN EmptyMapping
  ELSE Put(issue_classification_dict_reset(issues, n - 1),
           issues[n].issue_classification, 1)

\* the per-classification counters after the first n issues
RECURSIVE issue_classification_dict(_, _)
issue_classification_dict(issues, n) ==
  IF n = 0 THEN EmptyMapping
  ELSE LET d == issue_classification_dict(issues, n - 1)
           classification == issues[n].issue_classification
       IN  IF classification \in DOMAIN d
           THEN [d EXCEPT ![classification] = @ + 1]
           ELSE Put(d, classification, 1)

issue_severity_list_incident(issues, p) ==
  [n \in 1..Len(issues) |-> GetOr0(p, "incident")]

issue_severity_list(issues, p) ==
  [n \in 1..Len(issues) |-> GetOr0(p, issues[n].issue_classification)]

SeqMax(sevs) == CHOOSE m \in {sevs[n] : n \in 1..Len(sevs)} :
                  \A n \in 1..Len(sevs) : sevs[n] <= m

\* State.worst of cmk.agent_based.v2: CRIT if CRIT is among the arguments,
\* otherwise the numerically largest (OK < WARN < UNKNOWN < CRIT)
StateWorst(sevs) ==
  IF \E n \in 1..Len(sevs) : sevs[n] = CRIT THEN CRIT ELSE SeqMax(sevs)

Upper(classification) ==
  IF classification = "incident" THEN "INCIDENT"
  ELSE IF classification = "advisory" THEN "ADVISORY"
  ELSE IF classification = "maintenance" THEN "MAINTENANCE"
  ELSE classification

health_issue_base_url ==
  "https://admin.microsoft.com/Adminportal/Home#/servicehealth/:/alerts/"

issue_start_render(issue) ==
  IF issue.issue_start # "" THEN <<"datetime", issue.issue_start>>
  ELSE <<"(Not available)">>

issue_details_list(issue) ==
  <<<<Upper(issue.issue_classification), " (", issue.issue_feature, "): ",
      issue.issue_id>>,
    <<" - Title: ", issue.issue_title>>,
    <<" - Start time: ", issue_start_render(issue)>>,
    <<" - Issue URL: ", health_issue_base_url, issue.issue_id>>>>

result_details_service_health(issues) ==
  [n \in 1..Len(issues) |-> issue_details_list(issues[n])]

ServiceHealthMetrics(d) ==
  <<Metric("m365_service_health_count_incident", GetOr0(d, "incident"), NoLevels),
    Metric("m365_service_health_count_advisory", GetOr0(d, "advisory"), NoLevels)>>

check_m365_service_health_metrics_in_branch(i, p, s) ==
  LET m365_service == Get(s, i)
  IN  IF m365_service = None THEN Returned(<<>>)
      ELSE LET issues == m365_service.service_issues
               d == issue_classification_dict(issues, Len(issues))
           IN  IF issues # <<>>
               THEN Returned(
                      <<Result(StateWorst(issue_severity_list(issues, p)),
                               <<"Incident: ", GetOr0(d, "incident"),
                                 ", Advisory: ", GetOr0(d, "advisory"),
                                 ", Status: ", m365_service.service_status>>,
                               result_details_service_health(issues))>>
                      \o ServiceHealthMetrics(d))
               ELSE Returned(<<Result(OK, <<"No open issues">>, None)>>)

check_m365_service_health_not_found(i, p, s) ==
  LET m365_service == Get(s, i)
  IN  IF m365_service = None
      THEN Returned(<<Result(OK, <<"No open issues">>, None)>>
                    \o ServiceHealthMetrics(EmptyMapping))
      ELSE LET issues == m365_service.service_issues
               d == issue_classification_dict(issues, Len(issues))
           IN  IF issues # <<>>
               THEN Returned(
                      <<Result(StateWorst(issue_severity_list(issues, p)),
                               <<"Incident: ", GetOr0(d, "incident"),
                                 ", Advisory: ", GetOr0(d, "advisory"),
                                 ", Status: ", m365_service.service_status>>,
                               result_details_service_health(issues))>>
                      \o ServiceHealthMetrics(d))
               ELSE Returned(<<Result(OK, <<"No open issues">>, None)>>
                             \o ServiceHealthMetrics(d))

check_m365_service_health(i, p, s) ==
  LET m365_service == Get(s, i)
  IN  IF m365_service = None THEN Returned(<<>>)
      ELSE LET issues == m365_service.service_issues
               d == issue_classification_dict(issues, Len(issues))
           IN  IF issues # <<>>
               THEN Returned(
                      <<Result(StateWorst(issue_severity_list(issues, p)),
                               <<"Incident: ", GetOr0(d, "incident"),
                                 ", Advisory: ", GetOr0(d, "advisory"),
                                 ", Status: ", m365_service.service_status>>,
                               result_details_service_health(issues))>>
                      \o ServiceHealthMetrics(d))
               ELSE Returned(<<Result(OK, <<"No open issues">>, None)>>
                             \o ServiceHealthMetrics(d))

----------------------------------------------------------------------------
(* m365_group_based_licensing: data, parse and check *)

GroupFields == {"group_id", "group_name"}

Group(id, name) == [group_id |-> id, group_name |-> name]

Groups ==
  {Group("00000000-0000-0000-0000-000000000000", "Group name 1"),
   Group("00000000-0000-0000-0000-000000000001", "Group name 2")}

\* An entry of the JSON array without its "group_name" member.
BadGroupItem == [group_id |-> "00000000-0000-0000-0000-000000000002"]

\* the section texts that do not parse
BadGroupStringTables == {JsonArray(<<BadGroupItem>>), NotJson}

RECURSIVE ParseGroupsLoop(_, _, _)
ParseGroupsLoop(items, i, parsed) ==
  IF i > Len(items) THEN [ok |-> TRUE, section |-> parsed, raised |-> "none"]
  ELSE IF DOMAIN items[i] # GroupFields
       THEN [ok |-> FALSE, section |-> None, raised |-> "TypeError"]
       ELSE ParseGroupsLoop(items, i + 1, Append(parsed, items[i]))

parse_m365_group_based_licensing(string_table) ==
  IF ~string_table.valid_json
  THEN [ok |-> FALSE, section |-> None, raised |-> "JSONDecodeError"]
  ELSE ParseGroupsLoop(string_table.items, 1, <<>>)

\* as discover_m365_group_based_licensing, with one service per group
discover_m365_group_based_licensing_each(s) ==
  [n \in 1..Len(s) |-> Service(s[n].group_name)]

discover_m365_group_based_licensing(s) == <<ServiceWithoutItem>>

result_details_groups(groups) ==
  [n \in 1..Len(groups) |->
     <<"Group name: ", groups[n].group_name, "\n- ID: ", groups[n].group_id>>]

check_m365_group_based_licensing_distinct(s) ==
  LET groups == s
  IN  IF groups = <<>>
      THEN Returned(<<Result(OK, <<"No groups with errors">>, None)>>)
      ELSE Returned(<<Result(CRIT,
                             <<"Groups with errors: ",
                               Cardinality({groups[n] : n \in 1..Len(groups)})>>,
                             result_details_groups(groups))>>)

check_m365_group_based_licensing(s) ==
  LET groups == s
  IN  IF groups = <<>>
      THEN Returned(<<Result(OK, <<"No groups with errors">>, None)>>)
      ELSE Returned(<<Result(CRIT, <<"Groups with errors: ", Len(groups)>>,
                             result_details_groups(groups))>>)

----------------------------------------------------------------------------
(* The collection cycle *)

NoItem == ""

Init ==
  /\ pc = "idle"
  /\ check = "none"
  /\ section = None
  /\ item = NoItem
  /\ params = None
  /\ yielded = <<>>
  /\ raised = "none"
  /\ raw_section = None
  /\ previous = "none"
  /\ sections = None
  /\ calls = None

\* as ParseLicensesFrom, with the dict "parsed" kept at module level
ParseLicensesFrom_module_dict(string_table) ==
  LET r == IF ~string_table.valid_json
           THEN [ok |-> FALSE, section |-> None, raised |-> "JSONDecodeError"]
           ELSE ParseLicensesLoop(string_table.items, 1,
                                  IF check = "m365_licenses" THEN section
                                  ELSE EmptyMapping)
  IN  /\ pc' = IF r.ok THEN "parsed" ELSE "parse_failed"
      /\ section' = r.section
      /\ raised' = r.raised
      /\ check' = "m365_licenses"
      /\ UNCHANGED <<item, params, yielded>>

ParseLicensesFrom(string_table) ==
  LET r == parse_m365_licenses(string_table)
  IN  /\ pc' = IF r.ok THEN "parsed" ELSE "parse_failed"
      /\ section' = r.section
      /\ raised' = r.raised
      /\ check' = "m365_licenses"
      /\ UNCHANGED <<item, params, yielded>>

\* the section text is a JSON array of at most MaxEntries entries, or does not parse
ParseLicenses ==
  /\ pc = "idle"
  /\ \/ \E k \in 0..MaxEntries : \E items \in [1..k -> LicenseItems] :
            ParseLicensesFrom(JsonArray(items))
     \/ \E string_table \in BadLicensesStringTables : ParseLicensesFrom(string_table)
  /\ UNCHANGED <<raw_section, previous, sections, calls>>

CheckLicensesWith(params_set) ==
  /\ pc = "parsed"
  /\ check = "m365_licenses"
  /\ \E i \in SkuNames, p \in params_set :
       LET r == check_m365_licenses(i, [lic_unit_available_lower |-> p], section)
       IN  /\ item' = i
           /\ params' = [lic_unit_available_lower |-> p]
           /\ yielded' = r.yielded
           /\ raised' = r.raised
  /\ pc' = "checked"
  /\ UNCHANGED <<check, section, raw_section, previous, sections, calls>>

CheckLicenses == CheckLicensesWith(LicensesParams)

DiscoverLicenses ==
  /\ pc = "parsed"
  /\ check = "m365_licenses"
  /\ yielded' = discover_m365_licenses(section)
  /\ pc' = "discovered"
  /\ UNCHANGED <<check, section, item, params, raised, raw_section, previous, sections, calls>>

ParseServiceHealthFrom(string_table) ==
  LET r == parse_m365_service_health(string_table)
  IN  /\ pc' = IF r.ok THEN "parsed" ELSE "parse_failed"
      /\ section' = r.section
      /\ raised' = r.raised
      /\ check' = "m365_service_health"
      /\ UNCHANGED <<item, params, yielded>>

\* the section text is a JSON array of at most MaxEntries entries, or does not parse
ParseServiceHealth ==
  /\ pc = "idle"
  /\ \/ \E k \in 0..MaxEntries : \E items \in [1..k -> ServiceHealthItems] :
            ParseServiceHealthFrom(JsonArray(items))
     \/ \E string_table \in BadServiceHealthStringTables : ParseServiceHealthFrom(string_table)
  /\ UNCHANGED <<raw_section, previous, sections, calls>>

CheckServiceHealthWith(params_set) ==
  /\ pc = "parsed"
  /\ check = "m365_service_health"
  /\ \E i \in ServiceNames, p \in params_set :
       LET r == check_m365_service_health(i, p, section)
       IN  /\ item' = i
           /\ params' = p
           /\ yielded' = r.yielded
           /\ raised' = r.raised
  /\ pc' = "checked"
  /\ UNCHANGED <<check, section, raw_section, previous, sections, calls>>

CheckServiceHealth == CheckServiceHealthWith(ServiceHealthParams)

DiscoverServiceHealth ==
  /\ pc = "parsed"
  /\ check = "m365_service_health"
  /\ yielded' = discover_m365_service_health(section)
  /\ pc' = "discovered"
  /\ UNCHANGED <<check, section, item, params, raised, raw_section, previous, sections, calls>>

ParseGroupBasedLicensingFrom(string_table) ==
  LET r == parse_m365_group_based_licensing(string_table)
  IN  /\ pc' = IF r.ok THEN "parsed" ELSE "parse_failed"
      /\ section' = r.section
      /\ raised' = r.raised
      /\ check' = "m365_group_based_licensing"
      /\ UNCHANGED <<item, params, yielded>>

\* the section text is a JSON array of at most MaxGroups entries, or does not parse
ParseGroupBasedLicensing ==
  /\ pc = "idle"
  /\ \/ \E k \in 0..MaxGroups : \E items \in [1..k -> Groups] :
            ParseGroupBasedLicensingFrom(JsonArray(items))
     \/ \E string_table \in BadGroupStringTables : ParseGroupBasedLicensingFrom(string_table)
  /\ UNCHANGED <<raw_section, previous, sections, calls>>

CheckGroupBasedLicensing ==
  /\ pc = "parsed"
  /\ check = "m365_group_based_licensing"
  /\ LET r == check_m365_group_based_licensing(section)
     IN  /\ yielded' = r.yielded
         /\ raised' = r.raised
  /\ pc' = "checked"
  /\ UNCHANGED <<check, section, item, params, raw_section, previous, sections, calls>>

DiscoverGroupBasedLicensing ==
  /\ pc = "parsed"
  /\ check = "m365_group_based_licensing"
  /\ yielded' = discover_m365_group_based_licensing(section)
  /\ pc' = "discovered"
  /\ UNCHANGED <<check, section, item, params, raised, raw_section, previous, sections, calls>>

EndCycle ==
  /\ pc \in {"checked", "discovered", "parse_failed"}
  /\ pc' = "idle"
  /\ check' = "none"
  /\ section' = None
  /\ item' = NoItem
  /\ params' = None
  /\ yielded' = <<>>
  /\ raised' = "none"
  /\ UNCHANGED <<raw_section, previous, sections, calls>>

Next ==
  \/ ParseLicenses
  \/ DiscoverLicenses
  \/ CheckLicenses
  \/ ParseServiceHealth
  \/ DiscoverServiceHealth
  \/ CheckServiceHealth
  \/ ParseGroupBasedLicensing
  \/ DiscoverGroupBasedLicensing
  \/ CheckGroupBasedLicensing
  \/ EndCycle

Spec == Init /\ [][Next]_vars

----------------------------------------------------------------------------
(* Successive collection cycles *)

\* An entry of the JSON array with a member that License does not have.
ExtraLicenseItem ==
  [lic_sku_id |-> SkuId("VISIOCLIENT"), lic_sku_name |-> "VISIOCLIENT",
   lic_state |-> "Enabled", lic_units_consumed |-> 1, lic_units_enabled |-> 1,
   lic_units_lockedout |-> 0, lic_units_suspended |-> 0, lic_units_warning |-> 0,
   lic_units_total |-> 1]

VisioLicense == License(SkuId("VISIOCLIENT"), "VISIOCLIENT", "Enabled", 44, 50, 0, 0, 5)

CycleLicensesStringTables ==
  {JsonArray(s) : s \in BoundedSeq(ExampleLicenses, MaxCycleEntries)}
  \cup BadLicensesStringTables
  \cup {JsonArray(<<ExtraLicenseItem>>), JsonArray(<<VisioLicense, BadLicenseItem>>)}

CycleLicensesParams ==
  {<<"lic_overlicensed", None>>,
   <<"lic_unit_available_lower_pct", <<"fixed", <<1000, 500>>>>>>}

AdvisoryIssue ==
  ServiceIssue("Some users may be unable to view group membership",
               "2024-05-02T01:00:00Z", "OWA - poor customer experience",
               "advisory", "EX785433")

\* The two entries of the example data of the plug-in and a recovered service.
ExampleServices ==
  {MicrosoftService("Exchange Online", "serviceDegradation", <<AdvisoryIssue>>),
   MicrosoftService("Exchange Online", "serviceOperational", <<>>),
   MicrosoftService("Microsoft Entra", "serviceOperational", <<>>)}

\* An entry of the JSON array with a member that MicrosoftService does not have.
ExtraServiceHealthItem ==
  [service_name |-> "Microsoft Entra", service_status |-> "serviceOperational",
   service_issues |-> <<>>, service_id |-> "AAD"]

\* An entry one of whose issues has a member that ServiceIssue does not have.
ExtraServiceIssueItem ==
  [service_name |-> "Exchange Online", service_status |-> "serviceDegradation",
   service_issues |-> <<[issue_title |-> "t", issue_start |-> "",
                         issue_feature |-> "f", issue_classification |-> "incident",
                         issue_id |-> "EX1", issue_status |-> "open"]>>]

CycleServiceHealthStringTables ==
  {JsonArray(s) : s \in BoundedSeq(ExampleServices, MaxCycleEntries)}
  \cup BadServiceHealthStringTables
  \cup {JsonArray(<<ExtraServiceHealthItem>>), JsonArray(<<ExtraServiceIssueItem>>)}

CycleServiceHealthParams ==
  {[k \in {"incident", "advisory"} |-> IF k = "incident" THEN CRIT ELSE WARN],
   EmptyMapping}

\* An entry of the JSON array with a member that Group does not have.
ExtraGroupItem ==
  [group_id |-> "00000000-0000-0000-0000-000000000002", group_name |-> "Group name 3",
   group_mail |-> "group3@example.com"]

CycleGroupStringTables ==
  {JsonArray(s) : s \in BoundedSeq(Groups, MaxCycleEntries)}
  \cup BadGroupStringTables
  \cup {JsonArray(<<ExtraGroupItem>>)}

CycleParseLicenses ==
  /\ pc = "idle"
  /\ \E string_table \in CycleLicensesStringTables :
       /\ ParseLicensesFrom(string_table)
       /\ raw_section' = string_table
  /\ UNCHANGED <<previous, sections, calls>>

CycleCheckLicenses == CheckLicensesWith(CycleLicensesParams)

CycleParseServiceHealth ==
  /\ pc = "idle"
  /\ \E string_table \in CycleServiceHealthStringTables :
       /\ ParseServiceHealthFrom(string_table)
       /\ raw_section' = string_table
  /\ UNCHANGED <<previous, sections, calls>>

CycleCheckServiceHealth == CheckServiceHealthWith(CycleServiceHealthParams)

CycleParseGroupBasedLicensing ==
  /\ pc = "idle"
  /\ \E string_table \in CycleGroupStringTables :
       /\ ParseGroupBasedLicensingFrom(string_table)
       /\ raw_section' = string_table
  /\ UNCHANGED <<previous, sections, calls>>

\* the host starts over with the next section text; nothing is cleared
CycleEnd ==
  /\ pc \in {"checked", "discovered", "parse_failed"}
  /\ pc' = "idle"
  /\ previous' = pc
  /\ UNCHANGED <<check, section, item, params, yielded, raised, raw_section,
                 sections, calls>>

NextCycles ==
  \/ CycleParseLicenses
  \/ DiscoverLicenses
  \/ CycleCheckLicenses
  \/ CycleParseServiceHealth
  \/ DiscoverServiceHealth
  \/ CycleCheckServiceHealth
  \/ CycleParseGroupBasedLicensing
  \/ DiscoverGroupBasedLicensing
  \/ CheckGroupBasedLicensing
  \/ CycleEnd

SpecCycles == Init /\ [][NextCycles]_vars

----------------------------------------------------------------------------
(* Check calls that the host interleaves *)

\* Each check function is a generator: the host starts it with item, params and
\* the parsed section, which it also hands to the other calls, and the body runs
\* in steps.  A call keeps a reference to the section and reads it when a step
\* needs it; its locals are in its record.

cycle_vars == <<pc, check, section, item, params, yielded, raised, raw_section,
                previous>>

IncidentIssue == ServiceIssue("Users can't sign in", "", "Sign-in", "incident", "MO100001")

\* the sections the host has parsed and hands to the calls
ParsedSections ==
  [m365_licenses |->
     parse_m365_licenses(JsonArray(<<VisioLicense>>)).section,
   m365_service_health |->
     parse_m365_service_health(JsonArray(
       <<MicrosoftService("Exchange Online", "serviceDegradation",
                          <<AdvisoryIssue, IncidentIssue>>),
         MicrosoftService("Microsoft Entra", "serviceOperational", <<>>)>>)).section,
   m365_group_based_licensing |->
     parse_m365_group_based_licensing(JsonArray(
       [n \in 1..2 |-> CHOOSE g \in Groups :
          g.group_name = IF n = 1 THEN "Group name 1" ELSE "Group name 2"])).section]

IdleCall ==
  [check |-> "none", item |-> NoItem, params |-> None, at |-> "idle", n |-> 0,
   issue_classification_dict |-> EmptyMapping, issue_severity_list |-> <<>>,
   yielded |-> <<>>, raised |-> "none", overlapped |-> FALSE]

InitConcurrent ==
  /\ pc = "idle"
  /\ check = "none"
  /\ section = None
  /\ item = NoItem
  /\ params = None
  /\ yielded = <<>>
  /\ raised = "none"
  /\ raw_section = None
  /\ previous = "none"
  /\ sections = ParsedSections
  /\ calls = [k \in 1..NumCalls |-> IdleCall]

Running(k) == calls[k].at \in {"called", "found"}

\* a step of call k while another call has started and not yet returned
Overlaps(k) == calls[k].overlapped \/ \E j \in 1..NumCalls : j # k /\ Running(j)

Start(k, name, i, p) ==
  /\ calls[k].at = "idle"
  /\ calls' = [calls EXCEPT ![k] = [IdleCall EXCEPT !.check = name, !.item = i,
                                                   !.params = p, !.at = "called",
                                                   !.overlapped = Overlaps(k)]]
  /\ UNCHANGED <<cycle_vars, sections>>

CallLicenses(k) ==
  \E i \in SkuNames, p \in CycleLicensesParams :
    Start(k, "m365_licenses", i, [lic_unit_available_lower |-> p])

CallServiceHealth(k) ==
  \E i \in ServiceNames, p \in CycleServiceHealthParams :
    Start(k, "m365_service_health", i, p)

CallGroupBasedLicensing(k) == Start(k, "m365_group_based_licensing", NoItem, None)

\* section.get(item) and the return when there is no such item
SectionGet(k) ==
  /\ calls[k].at = "called"
  /\ calls[k].check \in {"m365_licenses", "m365_service_health"}
  /\ calls' = [calls EXCEPT ![k] =
       IF calls[k].item \in DOMAIN sections[calls[k].check]
       THEN [@ EXCEPT !.at = "found", !.overlapped = Overlaps(k)]
       ELSE [@ EXCEPT !.at = "returned", !.overlapped = Overlaps(k)]]
  /\ UNCHANGED <<cycle_vars, sections>>

LicensesYield(k) ==
  /\ calls[k].at = "found"
  /\ calls[k].check = "m365_licenses"
  /\ LET r == check_m365_licenses(calls[k].item, calls[k].params,
                                  sections.m365_licenses)
     IN  calls' = [calls EXCEPT ![k] = [@ EXCEPT !.at = "returned",
                                                 !.yielded = r.yielded,
                                                 !.raised = r.raised,
                                                 !.overlapped = Overlaps(k)]]
  /\ UNCHANGED <<cycle_vars, sections>>

\* one pass of the loop that counts an issue and notes its severity
CountIssue(d, classification) ==
  IF classification \in DOMAIN d THEN [d EXCEPT ![classification] = @ + 1]
  ELSE Put(d, classification, 1)

\* as ServiceHealthLoop, with the issue taken off the list of the service
ServiceHealthLoop_pop(k) ==
  /\ calls[k].at = "found"
  /\ calls[k].check = "m365_service_health"
  /\ LET service == sections.m365_service_health[calls[k].item]
     IN  /\ service.service_issues # <<>>
         /\ LET classification == service.service_issues[1].issue_classification
            IN  calls' = [calls EXCEPT ![k] =
                  [@ EXCEPT !.issue_classification_dict =
                                CountIssue(@, classification),
                            !.issue_severity_list =
                                Append(@, GetOr0(calls[k].params, classification)),
                            !.overlapped = Overlaps(k)]]
         /\ sections' = [sections EXCEPT
                           !.m365_service_health[calls[k].item].service_issues =
                               Tail(@)]
  /\ UNCHANGED cycle_vars

ServiceHealthLoop(k) ==
  /\ calls[k].at = "found"
  /\ calls[k].check = "m365_service_health"
  /\ LET service == sections.m365_service_health[calls[k].item]
     IN  /\ calls[k].n < Len(service.service_issues)
         /\ LET classification ==
                  service.service_issues[calls[k].n + 1].issue_classification
            IN  calls' = [calls EXCEPT ![k] =
                  [@ EXCEPT !.n = @ + 1,
                            !.issue_classification_dict =
                                CountIssue(@, classification),
                            !.issue_severity_list =
                                Append(@, GetOr0(calls[k].params, classification)),
                            !.overlapped = Overlaps(k)]]
  /\ UNCHANGED <<cycle_vars, sections>>

\* after the loop: the result and the two metrics from the locals of the call
ServiceHealthYield(k) ==
  /\ calls[k].at = "found"
  /\ calls[k].check = "m365_service_health"
  /\ LET service == sections.m365_service_health[calls[k].item]
         d == calls[k].issue_classification_dict
     IN  /\ calls[k].n >= Len(service.service_issues)
         /\ calls' = [calls EXCEPT ![k] =
              [@ EXCEPT !.at = "returned",
                        !.overlapped = Overlaps(k),
                        !.yielded =
                          IF calls[k].issue_severity_list # <<>>
                          THEN <<Result(StateWorst(calls[k].issue_severity_list),
                                        <<"Incident: ", GetOr0(d, "incident"),
                                          ", Advisory: ", GetOr0(d, "advisory"),
                                          ", Status: ", service.service_status>>,
                                        result_details_service_health(
                                          service.service_issues))>>
                               \o ServiceHealthMetrics(d)
                          ELSE <<Result(OK, <<"No open issues">>, None)>>
                               \o ServiceHealthMetrics(d)]]
  /\ UNCHANGED <<cycle_vars, sections>>

GroupBasedLicensingYield(k) ==
  /\ calls[k].at = "called"
  /\ calls[k].check = "m365_group_based_licensing"
  /\ LET r == check_m365_group_based_licensing(sections.m365_group_based_licensing)
     IN  calls' = [calls EXCEPT ![k] = [@ EXCEPT !.at = "returned",
                                                 !.yielded = r.yielded,
                                                 !.raised = r.raised,
                                                 !.overlapped = Overlaps(k)]]
  /\ UNCHANGED <<cycle_vars, sections>>

\* the host has taken the results of the call
Collect(k) ==
  /\ calls[k].at = "returned"
  /\ calls' = [calls EXCEPT ![k] = IdleCall]
  /\ UNCHANGED <<cycle_vars, sections>>

NextConcurrent ==
  \E k \in 1..NumCalls :
    \/ CallLicenses(k)
    \/ CallServiceHealth(k)
    \/ CallGroupBasedLicensing(k)
    \/ SectionGet(k)
    \/ LicensesYield(k)
    \/ ServiceHealthLoop(k)
    \/ ServiceHealthYield(k)
    \/ GroupBasedLicensingYield(k)
    \/ Collect(k)

SpecConcurrent == InitConcurrent /\ [][NextConcurrent]_vars

----------------------------------------------------------------------------
(* Licenses cycles with close levels *)

\* what the check does not compare: SKU id, license state, locked out and
\* suspended units
LicenseVariants ==
  {[lic_sku_id |-> SkuId("VISIOCLIENT"), lic_state |-> "Enabled",
    lic_units_lockedout |-> 0, lic_units_suspended |-> 0],
   [lic_sku_id |-> SkuId("THREAT_INTELLIGENCE"), lic_state |-> "Suspended",
    lic_units_lockedout |-> 1, lic_units_suspended |-> 200]}

LevelsLicenseItems ==
  {License(v.lic_sku_id, "VISIOCLIENT", v.lic_state, c, e, v.lic_units_lockedout,
           v.lic_units_suspended, w) :
     v \in LicenseVariants, c \in 0..MaxLevelConsumed, e \in 0..MaxLevelEnabled,
     w \in 0..MaxWarning}

\* 0.01 %, 100 % and the levels next to one third and two thirds
LevelsPctValues == {1, 3333, 3334, 6666, 6667, 10000}

LevelsAbsValues == {1, 2, 5}

LevelsLicensesParams ==
  {<<"lic_overlicensed", None>>}
  \cup {<<m, <<"no_levels", None>>>> :
          m \in {"lic_unit_available_lower_pct", "lic_unit_available_lower_abs"}}
  \cup {<<"lic_unit_available_lower_pct", <<"fixed", <<w, c>>>>>> :
          w \in LevelsPctValues, c \in LevelsPctValues}
  \cup {<<"lic_unit_available_lower_abs", <<"fixed", <<w, c>>>>>> :
          w \in LevelsAbsValues, c \in LevelsAbsValues}

LevelsParseLicenses ==
  /\ pc = "idle"
  /\ \E license \in LevelsLicenseItems : ParseLicensesFrom(JsonArray(<<license>>))
  /\ UNCHANGED <<raw_section, previous, sections, calls>>

LevelsCheckLicenses == CheckLicensesWith(LevelsLicensesParams)

NextLevels ==
  \/ LevelsParseLicenses
  \/ LevelsCheckLicenses
  \/ EndCycle

SpecLevels == Init /\ [][NextLevels]_vars

----------------------------------------------------------------------------
(* Helpers of the properties *)

Checked(name) == pc = "checked" /\ check = name

ItemFound == item \in DOMAIN section

LicensesFound == Checked("m365_licenses") /\ ItemFound

ServiceHealthFound == Checked("m365_service_health") /\ ItemFound

LowerParam == params["lic_unit_available_lower"]

FixedLevels(mode) == LowerParam[1] = mode /\ LowerParam[2][1] = "fixed"

Total == section[item].lic_units_enabled + section[item].lic_units_warning

Consumed == section[item].lic_units_consumed

HasResult == Len(yielded) >= 1 /\ yielded[1].kind = "Result"

IsMetric(n, name) ==
  n \in 1..Len(yielded) /\ yielded[n].kind = "Metric" /\ yielded[n].name = name

MetricValues(name) == {yielded[n].value : n \in {k \in 1..Len(yielded) : IsMetric(k, name)}}

MetricLevels(name) == {yielded[n].levels : n \in {k \in 1..Len(yielded) : IsMetric(k, name)}}

UnitsAre(enabled, warning, consumed) ==
  /\ section[item].lic_units_enabled = enabled
  /\ section[item].lic_units_warning = warning
  /\ section[item].lic_units_consumed = consumed

----------------------------------------------------------------------------
(* Properties *)

\* C1: licenses check, percentage mode with levels (warn_pct, crit_pct) and
\* total = units_enabled + units_warning > 0: the state is CRIT if
\* (total - consumed) / total * 100 < crit_pct, otherwise WARN if it is
\* < warn_pct, otherwise OK.
C1_PercentageState ==
  (LicensesFound /\ FixedLevels("lic_unit_available_lower_pct") /\ Total > 0) =>
    LET warn_pct == LowerParam[2][2][1]
        crit_pct == LowerParam[2][2][2]
    IN  /\ raised = "none"
        /\ HasResult
        /\ yielded[1].state =
             IF (Total - Consumed) * 10000 < crit_pct * Total THEN CRIT
             ELSE IF (Total - Consumed) * 10000 < warn_pct * Total THEN WARN
             ELSE OK

\* enabled=50, warning=5, consumed=44 with levels (10 %, 5 %) is OK
C1_Witness ==
  /\ LicensesFound
  /\ UnitsAre(50, 5, 44)
  /\ LowerParam = <<"lic_unit_available_lower_pct", <<"fixed", <<1000, 500>>>>>>
  /\ HasResult
  /\ yielded[1].state = OK

\* C2: licenses check, absolute mode with levels (warn_units, crit_units):
\* the thresholds on the consumed units are (total - warn_units,
\* total - crit_units); the state is CRIT if consumed > total - crit_units,
\* otherwise WARN if consumed > total - warn_units, otherwise OK.
C2_AbsoluteState ==
  (LicensesFound /\ FixedLevels("lic_unit_available_lower_abs") /\ Total > 0) =>
    LET warn_units == LowerParam[2][2][1]
        crit_units == LowerParam[2][2][2]
    IN  /\ raised = "none"
        /\ HasResult
        /\ MetricLevels("m365_licenses_consumed")
             = {<<Some(Total - warn_units), Some(Total - crit_units)>>}
        /\ yielded[1].state =
             IF Consumed > Total - crit_units THEN CRIT
             ELSE IF Consumed > Total - warn_units THEN WARN
             ELSE OK

\* consumed=44, total=55, levels (10, 5) gives the thresholds 45/50 and OK
C2_Witness ==
  /\ LicensesFound
  /\ UnitsAre(50, 5, 44)
  /\ LowerParam = <<"lic_unit_available_lower_abs", <<"fixed", <<10, 5>>>>>>
  /\ HasResult
  /\ yielded[1].state = OK
  /\ MetricLevels("m365_licenses_consumed") = {<<Some(45), Some(50)>>}

\* C3: licenses check, overlicensed mode: the state is CRIT if and only if
\* total - consumed < 0 and OK otherwise; WARN is never reported and
\* consumed = total is OK.
C3_OverlicensedState ==
  (LicensesFound /\ LowerParam[1] = "lic_overlicensed" /\ Total > 0) =>
    /\ raised = "none"
    /\ HasResult
    /\ yielded[1].state \in {OK, CRIT}
    /\ yielded[1].state = CRIT <=> Total - Consumed < 0
    /\ Consumed = Total => yielded[1].state = OK

\* enabled=10, warning=0, consumed=12 is CRIT
C3_Witness ==
  /\ LicensesFound
  /\ UnitsAre(10, 0, 12)
  /\ LowerParam[1] = "lic_overlicensed"
  /\ HasResult
  /\ yielded[1].state = CRIT

\* C4: licenses check with total = units_enabled + units_warning = 0: the
\* check raises a division error in every threshold mode before any result
\* or metric is emitted; with total > 0 no division error is raised.
C4_DivisionError ==
  LicensesFound =>
    /\ Total = 0 => (raised = "ZeroDivisionError" /\ yielded = <<>>)
    /\ Total > 0 => raised = "none"

C4_Witness ==
  /\ LicensesFound
  /\ Total = 0
  /\ FixedLevels("lic_unit_available_lower_abs")
  /\ raised = "ZeroDivisionError"
  /\ yielded = <<>>

SeverityOf(n) ==
  LET classification == section[item].service_issues[n].issue_classification
  IN  IF classification \in DOMAIN params THEN params[classification] ELSE OK

IssueSeverities == {SeverityOf(n) : n \in 1..Len(section[item].service_issues)}

HasIssues == ServiceHealthFound /\ Len(section[item].service_issues) > 0

\* C5 as stated: service-health check, for a service with at least one issue,
\* the state is the highest of the per-issue severities (0=OK, 1=WARN, 2=CRIT,
\* 3=UNKNOWN), each the value configured in params for the issue's classification.
C5_HighestSeverity ==
  HasIssues =>
    /\ HasResult
    /\ yielded[1].state \in IssueSeverities
    /\ \A sev \in IssueSeverities : sev <= yielded[1].state

\* C5 amended: the state is CRIT if CRIT is among the per-issue severities,
\* and otherwise the highest of them (the order of State.worst:
\* OK < WARN < UNKNOWN < CRIT).
C5_WorstSeverity ==
  HasIssues =>
    /\ raised = "none"
    /\ HasResult
    /\ yielded[1].state \in IssueSeverities
    /\ CRIT \in IssueSeverities => yielded[1].state = CRIT
    /\ CRIT \notin IssueSeverities =>
         \A sev \in IssueSeverities : sev <= yielded[1].state

\* an UNKNOWN and a CRIT issue together are CRIT
C5_Witness ==
  /\ HasIssues
  /\ {CRIT, UNKNOWN} \subseteq IssueSeverities
  /\ HasResult
  /\ yielded[1].state = CRIT

AllMetricsZero ==
  \A n \in 1..Len(yielded) : yielded[n].kind = "Metric" => yielded[n].value = 0

ReportsOKWithZeroCounts ==
  /\ raised = "none"
  /\ HasResult
  /\ yielded[1].state = OK
  /\ MetricValues("m365_service_health_count_incident") = {0}
  /\ MetricValues("m365_service_health_count_advisory") = {0}

\* C6 as stated: for all empty input lists/mappings, the group-based-licensing
\* check and the service-health check report OK with zero-valued metrics.
C6_EmptyInputsReportOK ==
  /\ (Checked("m365_group_based_licensing") /\ section = <<>>) =>
       (HasResult /\ yielded[1].state = OK /\ AllMetricsZero)
  /\ (Checked("m365_service_health") /\ DOMAIN section = {}) =>
       ReportsOKWithZeroCounts

\* C6 amended: for an empty group list the group-based-licensing check reports
\* OK (it emits no metric); for an empty service-health mapping the
\* service-health check yields no result and no metric; it reports OK with both
\* count metrics 0 for a service of the mapping whose issue list is empty.
C6_EmptyInputs ==
  /\ (Checked("m365_group_based_licensing") /\ section = <<>>) =>
       (raised = "none" /\ Len(yielded) = 1 /\ HasResult /\ yielded[1].state = OK)
  /\ (Checked("m365_service_health") /\ DOMAIN section = {}) =>
       (raised = "none" /\ yielded = <<>>)
  /\ (ServiceHealthFound /\ section[item].service_issues = <<>>) =>
       ReportsOKWithZeroCounts

C6_Witness ==
  /\ Checked("m365_service_health")
  /\ DOMAIN section = {}
  /\ yielded = <<>>

\* C7: licenses and service-health checks: when the item is not a key of the
\* parsed section, the check yields no result and no metric and raises no
\* exception, whatever the params and the other entries of the section are.
C7_ItemNotFound ==
  ((Checked("m365_licenses") \/ Checked("m365_service_health")) /\ ~ItemFound) =>
    (yielded = <<>> /\ raised = "none")

C7_Witness ==
  /\ Checked("m365_licenses")
  /\ ~ItemFound
  /\ DOMAIN section # {}
  /\ FixedLevels("lic_unit_available_lower_pct")
  /\ yielded = <<>>
  /\ raised = "none"

\* C8: licenses check arithmetic: the total metric is units_enabled +
\* units_warning and the available metric is max(0, total - consumed): never
\* negative, total - consumed when consumed <= total, 0 when consumed >= total.
C8_TotalAndAvailable ==
  (LicensesFound /\ Total > 0) =>
    /\ MetricValues("m365_licenses_total") = {Total}
    /\ \A available \in MetricValues("m365_licenses_available") : available >= 0
    /\ Consumed <= Total => MetricValues("m365_licenses_available") = {Total - Consumed}
    /\ Consumed >= Total => MetricValues("m365_licenses_available") = {0}

\* enabled=50, warning=5, consumed=44 gives total=55, available=11
C8_Witness ==
  /\ LicensesFound
  /\ UnitsAre(50, 5, 44)
  /\ MetricValues("m365_licenses_total") = {55}
  /\ MetricValues("m365_licenses_available") = {11}

\* C9: group-based-licensing check: exactly one result per invocation; it is OK
\* with summary "No groups with errors" if and only if the group list is empty,
\* and CRIT otherwise with the number of groups of the list in the summary and
\* one details block per group; WARN and UNKNOWN are never reported.
C9_GroupBasedLicensing ==
  Checked("m365_group_based_licensing") =>
    /\ raised = "none"
    /\ Len(yielded) = 1
    /\ HasResult
    /\ yielded[1].state \in {OK, CRIT}
    /\ yielded[1].state = OK <=> section = <<>>
    /\ section = <<>> => yielded[1].summary = <<"No groups with errors">>
    /\ section # <<>> =>
         /\ yielded[1].summary = <<"Groups with errors: ", Len(section)>>
         /\ Len(yielded[1].details) = Len(section)
         /\ \A n \in 1..Len(section) :
              yielded[1].details[n] = <<"Group name: ", section[n].group_name,
                                        "\n- ID: ", section[n].group_id>>

\* a list that names the same group twice counts it twice
C9_Witness ==
  /\ Checked("m365_group_based_licensing")
  /\ Len(section) = 3
  /\ section[1] = section[3]
  /\ yielded[1].state = CRIT
  /\ yielded[1].summary = <<"Groups with errors: ", 3>>

\* C10: service-health check, for a service of the section whose issue list is
\* empty: one result, OK with summary "No open issues", followed by the
\* incident-count and the advisory-count metric, both 0, whatever the service
\* status and the params are.
C10_NoOpenIssues ==
  (ServiceHealthFound /\ section[item].service_issues = <<>>) =>
    /\ raised = "none"
    /\ Len(yielded) = 3
    /\ HasResult
    /\ yielded[1].state = OK
    /\ yielded[1].summary = <<"No open issues">>
    /\ IsMetric(2, "m365_service_health_count_incident") /\ yielded[2].value = 0
    /\ IsMetric(3, "m365_service_health_count_advisory") /\ yielded[3].value = 0

C10_Witness ==
  /\ ServiceHealthFound
  /\ section[item].service_issues = <<>>
  /\ section[item].service_status = "serviceDegradation"
  /\ DOMAIN params = {"incident", "advisory"}
  /\ params["incident"] = CRIT
  /\ Len(yielded) = 3
  /\ yielded[1].state = OK

CountOf(classification) ==
  Cardinality({n \in 1..Len(section[item].service_issues) :
                 section[item].service_issues[n].issue_classification = classification})

C12_MetricLevels ==
  (LicensesFound /\ Total > 0) =>
    /\ MetricLevels("m365_licenses_consumed_pct") =
         IF LowerParam[1] = "lic_unit_available_lower_pct" /\ LowerParam[2][1] = "fixed"
         THEN {<<Some(10000 - LowerParam[2][2][1]), Some(10000 - LowerParam[2][2][2])>>}
         ELSE {NoLevels}
    /\ MetricLevels("m365_licenses_consumed") =
         IF LowerParam[1] = "lic_unit_available_lower_abs" /\ LowerParam[2][1] = "fixed"
         THEN {<<Some(Total - LowerParam[2][2][1]), Some(Total - LowerParam[2][2][2])>>}
         ELSE {NoLevels}
    /\ \A name \in {"m365_licenses_total", "m365_licenses_enabled",
                    "m365_licenses_available", "m365_licenses_warning"} :
         MetricLevels(name) = {NoLevels}

\* levels (10 %, 5 %) are shown as 90 % and 95 % on the consumed percentage
C12_Witness ==
  /\ LicensesFound
  /\ Total > 0
  /\ LowerParam = <<"lic_unit_available_lower_pct", <<"fixed", <<1000, 500>>>>>>
  /\ MetricLevels("m365_licenses_consumed_pct") = {<<Some(9000), Some(9500)>>}
  /\ MetricLevels("m365_licenses_consumed") = {NoLevels}

LicensesMetricNames ==
  <<"m365_licenses_total", "m365_licenses_enabled", "m365_licenses_consumed",
    "m365_licenses_consumed_pct", "m365_licenses_available", "m365_licenses_warning">>

\* C13: licenses check, for an item of the section with total > 0: every
\* invocation emits exactly one result followed by exactly six metrics, in the
\* order total, enabled, consumed, consumed_pct, available (clamped at 0),
\* warning units, in every threshold mode and for every resulting state.
C13_OneResultSixMetrics ==
  (LicensesFound /\ Total > 0) =>
    /\ raised = "none"
    /\ Len(yielded) = 7
    /\ yielded[1].kind = "Result"
    /\ \A n \in 1..6 : IsMetric(n + 1, LicensesMetricNames[n])
    /\ yielded[2].value = Total
    /\ yielded[3].value = section[item].lic_units_enabled
    /\ yielded[4].value = Consumed
    /\ yielded[6].value = (IF Total - Consumed < 0 THEN 0 ELSE Total - Consumed)
    /\ yielded[7].value = section[item].lic_units_warning

\* an over-assigned SKU in absolute mode: CRIT, available shown as 0
C13_Witness ==
  /\ LicensesFound
  /\ UnitsAre(10, 0, 12)
  /\ FixedLevels("lic_unit_available_lower_abs")
  /\ Len(yielded) = 7
  /\ yielded[1].state = CRIT
  /\ yielded[6].value = 0

NoLevelsSelected ==
  /\ LowerParam[1] \in {"lic_unit_available_lower_pct", "lic_unit_available_lower_abs"}
  /\ LowerParam[2][1] = "no_levels"

\* C17: licenses check with "No levels" under "Lower levels percentage" or
\* "Lower levels absolute": for total > 0 the state is OK for every value of
\* units_consumed, over-assignment included, the summary has no threshold
\* annotation and both metric level pairs are (none, none).
C17_NoLevelsIgnoresAvailable ==
  (LicensesFound /\ NoLevelsSelected /\ Total > 0) =>
    /\ raised = "none"
    /\ HasResult
    /\ yielded[1].state = OK
    /\ yielded[1].summary[9] = <<>>
    /\ MetricLevels("m365_licenses_consumed") = {NoLevels}
    /\ MetricLevels("m365_licenses_consumed_pct") = {NoLevels}

C17_Witness ==
  /\ LicensesFound
  /\ NoLevelsSelected
  /\ UnitsAre(10, 0, 12)
  /\ yielded[1].state = OK
  /\ yielded[1].summary[9] = <<>>

Discovered(name) == pc = "discovered" /\ check = name

C19_OneAggregateService ==
  Discovered("m365_group_based_licensing") =>
    /\ raised = "none"
    /\ Len(yielded) = 1
    /\ yielded[1].kind = "Service"
    /\ "item" \notin DOMAIN yielded[1]

C19_Witness ==
  /\ Discovered("m365_group_based_licensing")
  /\ Len(section) = 2
  /\ Len(yielded) = 1

ParseOf(name, string_table) ==
  CASE name = "m365_licenses" -> parse_m365_licenses(string_table)
    [] name = "m365_service_health" -> parse_m365_service_health(string_table)
    [] OTHER -> parse_m365_group_based_licensing(string_table)

CheckOf(name, i, p, s) ==
  CASE name = "m365_licenses" -> check_m365_licenses(i, p, s)
    [] name = "m365_service_health" -> check_m365_service_health(i, p, s)
    [] OTHER -> check_m365_group_based_licensing(s)

DiscoverOf(name, s) ==
  CASE name = "m365_licenses" -> discover_m365_licenses(s)
    [] name = "m365_service_health" -> discover_m365_service_health(s)
    [] OTHER -> discover_m365_group_based_licensing(s)

\* what the cycle yields when it is the first one the process runs
FirstCycle(name, string_table, i, p) ==
  LET r == ParseOf(name, string_table)
  IN  IF r.ok THEN CheckOf(name, i, p, r.section) ELSE Raised(r.raised)

\* C14: whatever cycles ran before (failed ones, ones with other data, ones
\* of another plug-in), the section, the discovery and the check result of a
\* cycle are those its own section text, item and params give in a first
\* cycle; a failed parse leaves no section and is not retried: the failure
\* stands until the next cycle brings a new section text.
C14_CycleIndependent ==
  /\ pc \in {"parsed", "discovered", "checked"} =>
        /\ ParseOf(check, raw_section).ok
        /\ section = ParseOf(check, raw_section).section
  /\ pc = "discovered" => yielded = DiscoverOf(check, section)
  /\ pc = "checked" =>
        [raised |-> raised, yielded |-> yielded]
          = FirstCycle(check, raw_section, item, params)
  /\ (pc = "parse_failed" \/ (pc = "idle" /\ previous = "parse_failed")) =>
        /\ ~ParseOf(check, raw_section).ok
        /\ section = None
        /\ raised = ParseOf(check, raw_section).raised

\* a licenses check right after a cycle whose parse failed
C14_Witness ==
  /\ Checked("m365_licenses")
  /\ previous = "parse_failed"
  /\ item \in DOMAIN section
  /\ Cardinality(DOMAIN section) = 1
  /\ Len(yielded) = 7

Parsed(name) == pc = "parsed" /\ check = name

\* the entries of a sequence, each with the number of times it occurs
EntriesOfSeq(seq) ==
  [e \in {seq[n] : n \in 1..Len(seq)} |->
     Cardinality({n \in 1..Len(seq) : seq[n] = e})]

\* the entries of a mapping, each with the number of keys that hold it
EntriesOfMapping(mapping) ==
  [e \in {mapping[k] : k \in DOMAIN mapping} |->
     Cardinality({k \in DOMAIN mapping : mapping[k] = e})]

\* the section written back as a JSON array: one object per entity, with the
\* fields of the dataclass as members
Reserialised ==
  IF check = "m365_group_based_licensing" THEN EntriesOfSeq(section)
  ELSE EntriesOfMapping(section)

KeyOf(entry) ==
  IF check = "m365_licenses" THEN entry.lic_sku_name ELSE entry.service_name

DistinctKeys(items) ==
  \A m, n \in 1..Len(items) : m # n => KeyOf(items[m]) # KeyOf(items[n])

OnlyModelFields(items) ==
  check = "m365_service_health" =>
    \A n \in 1..Len(items) :
      DOMAIN items[n] = {"service_name", "service_status", "service_issues"}

\* C16 as stated: every accepted array comes back entry for entry
C16_RoundTrip ==
  pc = "parsed" => Reserialised = EntriesOfSeq(raw_section.items)

\* C16: parsing then re-serialising reproduces all entries with all field
\* values for every accepted groups array, and for every accepted licenses or
\* service-health array whose entries have pairwise distinct keys (SKU name,
\* service name) and, for service health, no member beyond service_name,
\* service_status and service_issues; of entries with the same key only the
\* last one is kept.
C16_RoundTripDistinctKeys ==
  /\ Parsed("m365_group_based_licensing") =>
        Reserialised = EntriesOfSeq(raw_section.items)
  /\ (Parsed("m365_licenses") \/ Parsed("m365_service_health")) =>
        LET items == raw_section.items
        IN  /\ DistinctKeys(items) /\ OnlyModelFields(items) =>
                  Reserialised = EntriesOfSeq(items)
            /\ \A n \in 1..Len(items) :
                  (\A m \in (n + 1)..Len(items) : KeyOf(items[m]) # KeyOf(items[n]))
                    /\ OnlyModelFields(items)
                  => section[KeyOf(items[n])] = items[n]

\* two licenses with different SKU names
C16_Witness ==
  /\ Parsed("m365_licenses")
  /\ Len(raw_section.items) = 2
  /\ DistinctKeys(raw_section.items)
  /\ Cardinality(DOMAIN section) = 2
  /\ Reserialised = EntriesOfSeq(raw_section.items)

MicrosoftServiceFields == {"service_name", "service_status", "service_issues"}

ExpectedFields(name) ==
  CASE name = "m365_licenses" -> LicenseFields
    [] name = "m365_service_health" -> MicrosoftServiceFields
    [] OTHER -> GroupFields

\* some issue of the entry has not exactly the fields of ServiceIssue
BadIssue(name, entry) ==
  /\ name = "m365_service_health"
  /\ "service_issues" \in DOMAIN entry
  /\ \E n \in 1..Len(entry.service_issues) :
       DOMAIN entry.service_issues[n] # ServiceIssueFields

\* not valid JSON, or an entry has not exactly the expected fields
Malformed(name, string_table) ==
  \/ ~string_table.valid_json
  \/ \E n \in 1..Len(string_table.items) :
       \/ DOMAIN string_table.items[n] # ExpectedFields(name)
       \/ BadIssue(name, string_table.items[n])

\* not valid JSON, or an entry lacks an expected field, or an entry of groups
\* or licenses or an issue of a service has an unexpected field
MalformedForParse(name, string_table) ==
  \/ ~string_table.valid_json
  \/ \E n \in 1..Len(string_table.items) :
       \/ ExpectedFields(name) \ DOMAIN string_table.items[n] # {}
       \/ /\ name # "m365_service_health"
          /\ DOMAIN string_table.items[n] # ExpectedFields(name)
       \/ BadIssue(name, string_table.items[n])

ParseFailed ==
  /\ pc = "parse_failed"
  /\ section = None
  /\ raised \in {"JSONDecodeError", "TypeError", "KeyError"}
  /\ raised = "JSONDecodeError" <=> ~raw_section.valid_json

\* C20 as stated: entries that have not exactly the expected fields make
\* every parser raise
C20_MalformedRaises ==
  pc # "idle" /\ Malformed(check, raw_section) => ParseFailed

\* C20: for each of the three parsers, a section text that is not valid JSON,
\* or has an entry that lacks an expected field, or has a groups entry, a
\* licenses entry or a service issue with an unexpected field, makes the parse
\* raise and leaves no section: no entry is parsed partially, nothing is
\* discovered or checked in that cycle.  Only such texts fail; a
\* service-health entry with further members is accepted and the further
\* members are ignored.
C20_MalformedIsFatal ==
  /\ pc # "idle" /\ MalformedForParse(check, raw_section) => ParseFailed
  /\ pc = "parse_failed" => MalformedForParse(check, raw_section)
  /\ pc \in {"parsed", "discovered", "checked"} /\ check = "m365_service_health" =>
        \A n \in 1..Len(raw_section.items) :
          DOMAIN section[raw_section.items[n].service_name] = MicrosoftServiceFields

\* a valid entry followed by one without "lic_state": nothing of it is kept
C20_Witness ==
  /\ pc = "parse_failed"
  /\ check = "m365_licenses"
  /\ raw_section = JsonArray(<<VisioLicense, BadLicenseItem>>)
  /\ section = None
  /\ raised = "TypeError"

ReturnedCall(k) == calls[k].at = "returned"

\* C15: however the host interleaves check calls on the sections it has
\* parsed, different checks or the same check on the same or another item,
\* every call returns the result and metrics it returns when it runs alone on
\* its item, params and section, and no call changes the sections; the
\* counters of a running service-health call cover its own issues only.
C15_CallsIndependent ==
  /\ sections = ParsedSections
  /\ \A k \in 1..NumCalls :
       /\ ReturnedCall(k) =>
             [raised |-> calls[k].raised, yielded |-> calls[k].yielded]
               = CheckOf(calls[k].check, calls[k].item, calls[k].params,
                         ParsedSections[calls[k].check])
       /\ calls[k].at = "found" /\ calls[k].check = "m365_service_health" =>
             calls[k].issue_classification_dict =
               issue_classification_dict(
                 ParsedSections.m365_service_health[calls[k].item].service_issues,
                 calls[k].n)

\* two calls for the same service that ran interleaved have both returned
C15_Witness ==
  \E j, k \in 1..NumCalls :
    /\ j # k
    /\ ReturnedCall(j) /\ ReturnedCall(k)
    /\ calls[j].overlapped /\ calls[k].overlapped
    /\ calls[j].check = "m365_service_health"
    /\ calls[k].check = "m365_service_health"
    /\ calls[j].item = "Exchange Online" /\ calls[k].item = "Exchange Online"
    /\ Len(calls[j].yielded) = 3 /\ Len(calls[k].yielded) = 3

\* the state the check reports for the item when its license has consumed units c
StateWithConsumed(c) ==
  check_m365_licenses(item, params,
                      [section EXCEPT ![item].lic_units_consumed = c]).yielded[1].state

\* C21: licenses check, item found and total > 0, params of any mode (also
\* level pairs with warn below crit): a license that differs only in having
\* more consumed units never gets a less severe state, and one with fewer
\* consumed units never a more severe one (OK < WARN < CRIT).
C21_MonotoneInConsumption ==
  (LicensesFound /\ Total > 0) =>
    /\ raised = "none"
    /\ HasResult
    /\ yielded[1].state \in {OK, WARN, CRIT}
    /\ \A c \in 0..(MaxLevelConsumed + 1) :
         /\ c >= Consumed => StateWithConsumed(c) >= yielded[1].state
         /\ c <= Consumed => StateWithConsumed(c) <= yielded[1].state

\* a WARN between OK with one unit less and CRIT with one unit more
C21_Witness ==
  /\ LicensesFound
  /\ Total = 3
  /\ Consumed = 2
  /\ LowerParam = <<"lic_unit_available_lower_pct", <<"fixed", <<3334, 1>>>>>>
  /\ yielded[1].state = WARN
  /\ StateWithConsumed(1) = OK
  /\ StateWithConsumed(3) = CRIT

\* C22: licenses check, item found, total > 0 and more units consumed than
\* the total: the state is CRIT in mode overlicensed, in percentage mode with
\* levels whose critical level is within 0.01 % .. 100 % and in absolute mode
\* with levels whose critical level is at least 1, whatever the warning level.
C22_OverAssignmentIsCritical ==
  (/\ LicensesFound
   /\ Total > 0
   /\ Consumed > Total
   /\ \/ LowerParam[1] = "lic_overlicensed"
      \/ /\ FixedLevels("lic_unit_available_lower_pct")
         /\ LowerParam[2][2][2] \in 1..10000
      \/ /\ FixedLevels("lic_unit_available_lower_abs")
         /\ LowerParam[2][2][2] >= 1) =>
    /\ raised = "none"
    /\ HasResult
    /\ yielded[1].state = CRIT

\* one unit more than the total, in mode overlicensed
C22_Witness ==
  /\ LicensesFound
  /\ Total = 4
  /\ Consumed = 5
  /\ LowerParam[1] = "lic_overlicensed"
  /\ yielded[1].state = CRIT

\* value and levels of the emitted metric m365_licenses_consumed_pct, in
\* hundredths of a percent
ConsumedPctValue == yielded[5].value

ConsumedPctWarn == yielded[5].levels[1][1]

ConsumedPctCrit == yielded[5].levels[2][1]

PctLevelsOrdered ==
  /\ LicensesFound
  /\ FixedLevels("lic_unit_available_lower_pct")
  /\ Total > 0
  /\ LowerParam[2][2][2] <= LowerParam[2][2][1]

\* C23 as stated: the state is CRIT exactly when the emitted value is greater
\* than the emitted crit level, WARN or CRIT exactly when it is greater than
\* the emitted warn level
C23_StateAgreesWithMetric ==
  PctLevelsOrdered =>
    /\ yielded[1].state = CRIT <=> ConsumedPctValue > ConsumedPctCrit
    /\ yielded[1].state \in {WARN, CRIT} <=> ConsumedPctValue > ConsumedPctWarn

\* C23: licenses check, percentage mode with crit_pct <= warn_pct, total > 0:
\* the metric m365_licenses_consumed_pct is emitted with the value rounded to
\* two decimals and the levels (100 - warn_pct, 100 - crit_pct); a value
\* above the crit level by 0.01 or more means CRIT and a value below it by
\* 0.01 or more means not CRIT, a value above the warn level by 0.01 or more
\* means WARN or CRIT and a value below it by 0.01 or more means OK.  Where
\* the rounded value equals a level the state follows the unrounded available
\* percentage.
C23_StateAgreesUpToRounding ==
  PctLevelsOrdered =>
    /\ raised = "none"
    /\ HasResult
    /\ IsMetric(5, "m365_licenses_consumed_pct")
    /\ ConsumedPctValue = RoundHalfEven(Consumed * 10000, Total)
    /\ ConsumedPctWarn = 10000 - LowerParam[2][2][1]
    /\ ConsumedPctCrit = 10000 - LowerParam[2][2][2]
    /\ ConsumedPctValue >= ConsumedPctCrit + 1 => yielded[1].state = CRIT
    /\ ConsumedPctValue <= ConsumedPctCrit - 1 => yielded[1].state # CRIT
    /\ ConsumedPctValue >= ConsumedPctWarn + 1 => yielded[1].state \in {WARN, CRIT}
    /\ ConsumedPctValue <= ConsumedPctWarn - 1 => yielded[1].state = OK
    /\ ConsumedPctValue = ConsumedPctCrit =>
          (yielded[1].state = CRIT <=> Consumed * 10000 > ConsumedPctCrit * Total)

\* 1 of 3 units consumed, crit_pct 66.67: 66.66.. % available is CRIT while the
\* value 33.33 is not greater than the crit level 33.33
C23_Witness ==
  /\ PctLevelsOrdered
  /\ Total = 3
  /\ Consumed = 1
  /\ LowerParam[2][2] = <<6667, 6667>>
  /\ yielded[1].state = CRIT
  /\ ConsumedPctValue = 3333
  /\ ConsumedPctCrit = 3333

\* the license of the item with SKU id, license state, locked out and
\* suspended units of the variant v
LicenseAs(v) ==
  [section[item] EXCEPT !.lic_sku_id = v.lic_sku_id,
                        !.lic_state = v.lic_state,
                        !.lic_units_lockedout = v.lic_units_lockedout,
                        !.lic_units_suspended = v.lic_units_suspended]

CheckedAs(v) ==
  check_m365_licenses(item, params, [section EXCEPT ![item] = LicenseAs(v)])

\* C24: licenses check: a license with the same enabled, warning and consumed
\* units but another SKU id, license state, locked out and suspended units,
\* checked with the same params, gets the same state and the same six
\* metrics with the same values and levels (or fails in the same way when
\* the total is 0); its summary and details differ.
C24_OtherFieldsDoNotInterfere ==
  LicensesFound =>
    \A v \in LicenseVariants :
      /\ CheckedAs(v).raised = raised
      /\ Len(CheckedAs(v).yielded) = Len(yielded)
      /\ Total > 0 =>
            /\ Len(yielded) = 7
            /\ CheckedAs(v).yielded[1].state = yielded[1].state
            /\ \A n \in 2..7 :
                  /\ yielded[n].kind = "Metric"
                  /\ CheckedAs(v).yielded[n] = yielded[n]
            /\ v.lic_state # section[item].lic_state =>
                  /\ CheckedAs(v).yielded[1].summary # yielded[1].summary
                  /\ CheckedAs(v).yielded[1].details # yielded[1].details

\* a suspended, over-assigned license with locked out and suspended units
C24_Witness ==
  /\ LicensesFound
  /\ section[item].lic_state = "Suspended"
  /\ section[item].lic_units_suspended = 200
  /\ section[item].lic_units_lockedout = 1
  /\ Total = 2
  /\ Consumed = 3
  /\ LowerParam[1] = "lic_overlicensed"
  /\ yielded[1].state = CRIT
  /\ CheckedAs(CHOOSE v \in LicenseVariants : v.lic_state = "Enabled").yielded[1].state
       = CRIT

====
